---- MODULE Spec2Model ----
(***************************************************************************)
(* A model of the BSON codec entry points of src/src/bson.ts (serialize,   *)
(* serializeWithBufferAndIndex, deserialize, calculateObjectSize,          *)
(* deserializeStream, setInternalBufferSize) over the process-wide         *)
(* serialization buffer, of the Int32 wrapper of src/test_deps.ts and of   *)
(* the Timestamp behaviour exercised by src/unnamed/part_000.              *)
(*                                                                         *)
(* Buffers are zero-based in the source and one-based here: byte i of a    *)
(* buffer b is b[i + 1].  Bytes are integers in 0..255.                     *)
(***************************************************************************)
EXTENDS Integers, Sequences, FiniteSets, TLC

VARIABLES
    buffer,        \* bson.ts:101  the shared serialization buffer [cap, bytes]
    maxRequested,  \* history: the largest buffer size requested so far
    call,          \* the last entry point called, with its arguments
    ret,           \* what that call returned or threw, and the caller's buffer after it
    data,          \* deserializeStream: the input bytes
    documents,     \* deserializeStream: the caller's output array
    pc,            \* position of the scenario of the specification at hand
    obj            \* the value under construction (Int32 / Timestamp)

vars == <<buffer, maxRequested, call, ret, data, documents, pc, obj>>

(***************************************************************************)
(* Bounds of the model.                                                    *)
(***************************************************************************)
\* entries of a nested document or array
MaxNested == 1
\* how far above MAXSIZE a requested buffer size may lie
MaxGrow == 1
\* documents framed back to back for deserializeStream
MaxStream == 2
\* how far around a multiple of 2^31 the high part of a number given to Int32 lies
MaxDelta == 1

(***************************************************************************)
(* Program constants.                                                      *)
(***************************************************************************)
\* bson.ts:98   const MAXSIZE = 1024 * 1024 * 17
MAXSIZE == 17825792
BSON_DATA_STRING == 2
BSON_DATA_OBJECT == 3
BSON_DATA_ARRAY == 4
BSON_DATA_UNDEFINED == 6
BSON_DATA_BOOLEAN == 8
BSON_DATA_NULL == 10
BSON_DATA_CODE == 13
BSON_DATA_INT == 16

(***************************************************************************)
(* Bytes and little-endian 32-bit integers.                                *)
(***************************************************************************)
Min(a, b) == IF a < b THEN a ELSE b
Max(a, b) == IF a < b THEN b ELSE a

\* data[i] of a JavaScript typed array: undefined outside the array, and
\* undefined | 0 is 0 (bson.ts:261).
ByteAt(b, i) == IF i >= 0 /\ i < Len(b) THEN b[i + 1] ELSE 0

\* the four little-endian bytes of a signed 32-bit integer
Int32LE(v) ==
    << v % 256, (v \div 256) % 256, (v \div 65536) % 256, (v \div 16777216) % 256 >>

\* data[i] | data[i+1] << 8 | data[i+2] << 16 | data[i+3] << 24: the shift
\* by 24 is a signed 32-bit shift, so a top byte >= 128 gives a negative size.
ReadInt32LE(b, i) ==
    LET b3 == ByteAt(b, i + 3)
    IN  ByteAt(b, i) + ByteAt(b, i + 1) * 256 + ByteAt(b, i + 2) * 65536
          + (IF b3 >= 128 THEN b3 - 256 ELSE b3) * 16777216

Zeros(n) == [i \in 1..n |-> 0]

\* the decimal digits of a natural number, as character codes ("0" is 48)
RECURSIVE DecimalKey(_)
DecimalKey(n) ==
    IF n < 10 THEN << 48 + n >> ELSE DecimalKey(n \div 10) \o << 48 + (n % 10) >>

(***************************************************************************)
(* The value model.  A value is [k |-> kind, n |-> number, s |-> string,   *)
(* c |-> children]; a document is a sequence of entries [key |-> character *)
(* codes, val |-> value] with unique keys, in insertion order; an array is *)
(* a sequence of values.                                                   *)
(***************************************************************************)
Value(kind, n, s, c) == [k |-> kind, n |-> n, s |-> s, c |-> c]
Null == Value("null", 0, << >>, << >>)
Undefined == Value("undefined", 0, << >>, << >>)
Bool(b) == Value("boolean", IF b THEN 1 ELSE 0, << >>, << >>)
Num(n) == Value("int", n, << >>, << >>)
Str(s) == Value("string", 0, s, << >>)
Fn(src) == Value("function", 0, src, << >>)
CodeVal(src) == Value("code", 0, src, << >>)
Doc(es) == Value("document", 0, << >>, es)
Arr(xs) == Value("array", 0, << >>, xs)

\* the keys "a" and "$b" (the second is rejected under checkKeys)
KeyA == << 97 >>
KeyDollar == << 36, 98 >>
Keys == { KeyA, KeyDollar }

\* value kinds that serialize and deserialize to themselves
RoundTripScalars == { Null, Bool(TRUE), Num(-2), Str(<< 104, 105 >>) }
\* kinds whose encoding depends on serializeFunctions / ignoreUndefined
OptionScalars == { Undefined, Fn(<< 102 >>) }
Scalars == RoundTripScalars \cup OptionScalars

SeqsUpTo(S, n) == UNION { [1..m -> S] : m \in 0..n }

UniqueKeys(es) == \A i, j \in 1..Len(es) : es[i].key = es[j].key => i = j

DocsOver(vals, n) ==
    { es \in SeqsUpTo([key : Keys, val : vals], n) : UniqueKeys(es) }

\* documents and arrays of scalars
Containers(scalars) ==
    { Doc(es) : es \in DocsOver(scalars, MaxNested) }
        \cup { Arr(xs) : xs \in SeqsUpTo(scalars, MaxNested) }

\* a container wrapped once more in a one-entry document or array
Wrapped(scalars) ==
    { Doc(<< [key |-> KeyA, val |-> c] >>) : c \in Containers(scalars) }
        \cup { Arr(<< c >>) : c \in Containers(scalars) }

\* top-level documents: the empty one, one entry over scalars, containers
\* and wrapped containers, and two entries (each key once, in either order)
\* of which at most one is a container
DocsOf(scalars) ==
    { << >> }
        \cup { << [key |-> k, val |-> w] >> :
                  k \in Keys, w \in scalars \cup Containers(scalars) \cup Wrapped(scalars) }
        \cup { es \in [1..2 -> [key : Keys, val : scalars \cup Containers(scalars)]] :
                  UniqueKeys(es) /\ (es[1].val \in scalars \/ es[2].val \in scalars) }

AllDocs == DocsOf(Scalars)
RoundTripDocs == DocsOf(RoundTripScalars)

(***************************************************************************)
(* parser/calculate_size: the exact encoded length of a document.          *)
(* Per entry: type tag + key + NUL + payload; per document: 4-byte length  *)
(* prefix + entries + trailing NUL.                                        *)
(***************************************************************************)
\* an array is encoded as a document keyed "0", "1", ...
ArrayEntries(xs) == [i \in 1..Len(xs) |-> [key |-> DecimalKey(i - 1), val |-> xs[i]]]

RECURSIVE internalCalculateObjectSize(_, _, _)
RECURSIVE calculateElement(_, _, _, _)

calculateElement(key, value, serializeFunctions, ignoreUndefined) ==
    LET head == 1 + Len(key) + 1
    IN  CASE value.k = "null" -> head
          [] value.k = "boolean" -> head + 1
          [] value.k = "int" -> head + 4
          [] value.k = "string" -> head + 4 + Len(value.s) + 1
          [] value.k = "code" -> head + 4 + Len(value.s) + 1
          [] value.k = "undefined" -> IF ignoreUndefined THEN 0 ELSE head
          [] value.k = "function" ->
                IF serializeFunctions THEN head + 4 + Len(value.s) + 1 ELSE 0
          [] value.k = "document" ->
                head + internalCalculateObjectSize(value.c, serializeFunctions, ignoreUndefined)
          [] value.k = "array" ->
                head + internalCalculateObjectSize(ArrayEntries(value.c), serializeFunctions,
                                                   ignoreUndefined)

RECURSIVE SumSizes(_, _, _, _)
SumSizes(es, i, serializeFunctions, ignoreUndefined) ==
    IF i > Len(es) THEN 0
    ELSE calculateElement(es[i].key, es[i].val, serializeFunctions, ignoreUndefined)
           + SumSizes(es, i + 1, serializeFunctions, ignoreUndefined)

internalCalculateObjectSize(object, serializeFunctions, ignoreUndefined) ==
    4 + SumSizes(object, 1, serializeFunctions, ignoreUndefined) + 1

(***************************************************************************)
(* parser/serializer: serializeInto.  The bytes a document is written as,  *)
(* or, when a key is rejected, the bytes written before the failure (the   *)
(* length prefix of every document still open is the placeholder).         *)
(***************************************************************************)
\* checkKeys: a leading "$" or an embedded "."
InvalidKey(key) ==
    \/ Len(key) > 0 /\ key[1] = 36
    \/ \E i \in 1..Len(key) : key[i] = 46

\* int32 length (the NUL included), the bytes, NUL
StringPayload(s) == Int32LE(Len(s) + 1) \o s \o << 0 >>

RECURSIVE serializeObject(_, _, _, _, _)
RECURSIVE serializeElement(_, _, _, _, _, _)
RECURSIVE serializeEntries(_, _, _, _, _, _)

serializeElement(key, value, isArray, checkKeys, serializeFunctions, ignoreUndefined) ==
    LET head(tag) == << tag >> \o key \o << 0 >>
        done(bytes) == [ok |-> TRUE, bytes |-> bytes]
        nested(tag, es, arr) ==
            LET r == serializeObject(es, arr, checkKeys, serializeFunctions, ignoreUndefined)
            IN  [ok |-> r.ok, bytes |-> head(tag) \o r.bytes]
    IN  IF checkKeys /\ ~isArray /\ InvalidKey(key) THEN [ok |-> FALSE, bytes |-> << >>]
        ELSE CASE value.k = "null" -> done(head(BSON_DATA_NULL))
               [] value.k = "boolean" ->
                     done(head(BSON_DATA_BOOLEAN) \o << value.n >>)
               [] value.k = "int" -> done(head(BSON_DATA_INT) \o Int32LE(value.n))
               [] value.k = "string" -> done(head(BSON_DATA_STRING) \o StringPayload(value.s))
               [] value.k = "code" -> done(head(BSON_DATA_CODE) \o StringPayload(value.s))
               [] value.k = "undefined" ->
                     done(IF ignoreUndefined THEN << >> ELSE head(BSON_DATA_UNDEFINED))
               [] value.k = "function" ->
                     done(IF serializeFunctions
                          THEN head(BSON_DATA_CODE) \o StringPayload(value.s)
                          ELSE << >>)
               [] value.k = "document" -> nested(BSON_DATA_OBJECT, value.c, FALSE)
               [] value.k = "array" -> nested(BSON_DATA_ARRAY, ArrayEntries(value.c), TRUE)

serializeEntries(es, i, isArray, checkKeys, serializeFunctions, ignoreUndefined) ==
    IF i > Len(es) THEN [ok |-> TRUE, bytes |-> << >>]
    ELSE LET el == serializeElement(es[i].key, es[i].val, isArray, checkKeys,
                                    serializeFunctions, ignoreUndefined)
         IN  IF ~el.ok THEN el
             ELSE LET rest == serializeEntries(es, i + 1, isArray, checkKeys,
                                               serializeFunctions, ignoreUndefined)
                  IN  [ok |-> rest.ok, bytes |-> el.bytes \o rest.bytes]

serializeObject(es, isArray, checkKeys, serializeFunctions, ignoreUndefined) ==
    LET r == serializeEntries(es, 1, isArray, checkKeys, serializeFunctions, ignoreUndefined)
    IN  IF r.ok
        THEN [ok |-> TRUE, bytes |-> Int32LE(4 + Len(r.bytes) + 1) \o r.bytes \o << 0 >>]
        ELSE [ok |-> FALSE, bytes |-> Zeros(4) \o r.bytes]

\* buf with `bytes` stored from index `at`; a store past the end of a typed
\* array is dropped.  A buffer is [cap, bytes]: bytes holds the buffer up to
\* the highest index ever written, every byte after it is zero.
WriteBytes(buf, at, bytes) ==
    LET n == Min(buf.cap, Max(Len(buf.bytes), at + Len(bytes)))
    IN  [cap |-> buf.cap,
         bytes |-> [j \in 1..n |->
                      IF j > at /\ j <= at + Len(bytes) THEN bytes[j - at]
                      ELSE IF j <= Len(buf.bytes) THEN buf.bytes[j] ELSE 0]]

\* serializeInto(buffer, object, checkKeys, startingIndex, depth,
\*               serializeFunctions, ignoreUndefined): writes into buffer and
\* returns the index after the last byte written, or throws.
serializeInto(buf, object, checkKeys, startingIndex, serializeFunctions, ignoreUndefined) ==
    LET r == serializeObject(object, FALSE, checkKeys, serializeFunctions, ignoreUndefined)
    IN  [ok |-> r.ok,
         buffer |-> WriteBytes(buf, startingIndex, r.bytes),
         index |-> startingIndex + Len(r.bytes)]

(***************************************************************************)
(* parser/deserializer: deserialize(buffer, options).  Every result is     *)
(* [ok, val, next]: whether parsing succeeded, the parsed value (a         *)
(* document or array value for an object) and the index after it.          *)
(***************************************************************************)
Failed == [ok |-> FALSE, val |-> Null, next |-> 0]

\* an option of an options object, or its default when the object lacks it
Option(options, name, default) ==
    IF name \in DOMAIN options THEN options[name] ELSE default

\* the index of the first NUL at or after index `from`, or -1
FirstNul(b, from) ==
    IF \E j \in from..(Len(b) - 1) : b[j + 1] = 0
    THEN CHOOSE j \in from..(Len(b) - 1) :
             b[j + 1] = 0 /\ \A h \in from..(j - 1) : b[h + 1] # 0
    ELSE -1

\* the bytes of b at indices from..(to - 1)
Slice(b, from, to) == SubSeq(b, from + 1, to)

RECURSIVE deserializeObject(_, _, _)
RECURSIVE deserializeElements(_, _)

\* a length-prefixed, NUL-terminated string at index p
deserializeString(b, p, kind) ==
    LET stringSize == ReadInt32LE(b, p)
    IN  IF \/ stringSize <= 0
           \/ stringSize > Len(b) - (p + 4)
           \/ ByteAt(b, p + 4 + stringSize - 1) # 0
        THEN Failed
        ELSE [ok |-> TRUE,
              val |-> Value(kind, 0, Slice(b, p + 4, p + 4 + stringSize - 1), << >>),
              next |-> p + 4 + stringSize]

deserializeValue(b, tag, p) ==
    CASE tag = BSON_DATA_NULL -> [ok |-> TRUE, val |-> Null, next |-> p]
      [] tag = BSON_DATA_UNDEFINED -> [ok |-> TRUE, val |-> Undefined, next |-> p]
      [] tag = BSON_DATA_BOOLEAN ->
            IF ByteAt(b, p) \notin {0, 1} THEN Failed
            ELSE [ok |-> TRUE, val |-> Bool(ByteAt(b, p) = 1), next |-> p + 1]
      [] tag = BSON_DATA_INT -> [ok |-> TRUE, val |-> Num(ReadInt32LE(b, p)), next |-> p + 4]
      [] tag = BSON_DATA_STRING -> deserializeString(b, p, "string")
      [] tag = BSON_DATA_CODE -> deserializeString(b, p, "code")
      [] tag = BSON_DATA_OBJECT ->
            LET objectSize == ReadInt32LE(b, p)
            IN  IF objectSize <= 0 \/ objectSize > Len(b) - p THEN Failed
                ELSE LET r == deserializeObject(b, p, FALSE)
                     IN  IF r.ok THEN [ok |-> TRUE, val |-> r.val, next |-> r.next]
                         ELSE Failed
      [] tag = BSON_DATA_ARRAY ->
            LET objectSize == ReadInt32LE(b, p)
            IN  IF \/ objectSize <= 0 \/ objectSize > Len(b) - p
                   \/ ByteAt(b, p + objectSize - 1) # 0
                THEN Failed
                ELSE LET r == deserializeObject(b, p, TRUE)
                     IN  IF r.ok THEN [ok |-> TRUE, val |-> r.val, next |-> r.next]
                         ELSE Failed
      [] OTHER -> Failed      \* an unrecognized type tag

\* the elements from index pos up to and including the closing NUL
deserializeElements(b, pos) ==
    IF pos >= Len(b) THEN Failed
    ELSE IF b[pos + 1] = 0 THEN [ok |-> TRUE, val |-> Doc(<< >>), next |-> pos + 1]
    ELSE LET nul == FirstNul(b, pos + 1)
         IN  IF nul < 0 THEN Failed
             ELSE LET el == deserializeValue(b, b[pos + 1], nul + 1)
                  IN  IF ~el.ok THEN Failed
                      ELSE LET rest == deserializeElements(b, el.next)
                           IN  IF ~rest.ok THEN Failed
                               ELSE [ok |-> TRUE,
                                     val |-> Doc(<< [key |-> Slice(b, pos + 1, nul),
                                                     val |-> el.val] >> \o rest.val.c),
                                     next |-> rest.next]

\* a document at index `index`; an array yields its values in order
deserializeObject(b, index, isArray) ==
    LET size == ReadInt32LE(b, index)
    IN  IF size < 5 \/ size > Len(b) THEN Failed
        ELSE LET r == deserializeElements(b, index + 4)
             IN  IF ~r.ok \/ r.next - index # size THEN Failed
                 ELSE [ok |-> TRUE,
                       val |-> IF isArray
                               THEN Arr([i \in 1..Len(r.val.c) |-> r.val.c[i].val])
                               ELSE r.val,
                       next |-> r.next]

\* deserialize(buffer, options) of the parser: the checks of the framing,
\* then the document at options.index
internalDeserialize(b, options) ==
    LET index == Option(options, "index", 0)
        allowSmaller == Option(options, "allowObjectSmallerThanBufferSize", FALSE)
        size == ReadInt32LE(b, index)
    IN  IF \/ size < 5
           \/ allowSmaller /\ Len(b) < size
           \/ ~allowSmaller /\ Len(b) # size
           \/ size + index > Len(b)
           \/ ByteAt(b, index + size - 1) # 0
        THEN Failed
        ELSE deserializeObject(b, index, FALSE)

(***************************************************************************)
(* bson.ts: the entry points.                                              *)
(***************************************************************************)
\* Buffer.alloc(size): zero-filled
BufferAlloc(size) == [cap |-> size, bytes |-> << >>]

\* byte j of the shared buffer
BufferByte(buf, j) == IF j < Len(buf.bytes) THEN buf.bytes[j + 1] ELSE 0

\* source.copy(target, targetStart, sourceStart, sourceEnd): copies as many
\* bytes as fit into the target, and nothing when targetStart is at or past
\* its end; the target after the copy.
BufferCopy(source, target, targetStart, sourceStart, sourceEnd) ==
    LET n == Max(0, Min(Min(sourceEnd, source.cap) - sourceStart, Len(target) - targetStart))
    IN  [j \in 1..Len(target) |->
            IF j - 1 >= targetStart /\ j - 1 < targetStart + n
            THEN BufferByte(source, sourceStart + (j - 1 - targetStart))
            ELSE target[j]]

\* bson.ts:101   let buffer = Buffer.alloc(MAXSIZE)
InitialBuffer == BufferAlloc(MAXSIZE)

\* setInternalBufferSize without its guard: the buffer is replaced whatever
\* its size
setInternalBufferSize_Unguarded(buf, size) == BufferAlloc(size)

\* bson.ts:108   the shared buffer after setInternalBufferSize(size)
setInternalBufferSize(buf, size) ==
    IF buf.cap < size THEN BufferAlloc(size) ELSE buf

\* bson.ts:149   the finished buffer: serializationIndex bytes copied out of
\* the shared buffer
FinishedBuffer_OneMore(buf, serializationIndex) ==
    BufferCopy(buf, Zeros(serializationIndex + 1), 0, 0, serializationIndex + 1)

\* the copy started one byte into the shared buffer
FinishedBuffer_Shifted(buf, serializationIndex) ==
    BufferCopy(buf, Zeros(serializationIndex), 0, 1, serializationIndex)

FinishedBuffer(buf, serializationIndex) ==
    LET finishedBuffer == Zeros(serializationIndex)
    IN  BufferCopy(buf, finishedBuffer, 0, 0, Len(finishedBuffer))

\* bson.ts:121   serialize(object, options) on shared buffer buf:
\* [ok, buffer, value] with the shared buffer after the call and the
\* finished buffer returned
serialize(buf, object, options) ==
    LET checkKeys == Option(options, "checkKeys", FALSE)
        serializeFunctions == Option(options, "serializeFunctions", FALSE)
        ignoreUndefined == Option(options, "ignoreUndefined", TRUE)
        minInternalBufferSize == Option(options, "minInternalBufferSize", MAXSIZE)
        resized == IF buf.cap < minInternalBufferSize
                   THEN BufferAlloc(minInternalBufferSize) ELSE buf
        r == serializeInto(resized, object, checkKeys, 0, serializeFunctions, ignoreUndefined)
        serializationIndex == r.index
    IN  IF ~r.ok THEN [ok |-> FALSE, buffer |-> r.buffer, value |-> << >>]
        ELSE [ok |-> TRUE, buffer |-> r.buffer,
              value |-> FinishedBuffer(r.buffer, serializationIndex)]

\* bson.ts:192   the index returned: that of the last byte written
LastWrittenIndex_OnePast(startIndex, serializationIndex) == startIndex + serializationIndex

LastWrittenIndex(startIndex, serializationIndex) == startIndex + serializationIndex - 1

\* bson.ts:166   serializeWithBufferAndIndex(object, finalBuffer, options) on
\* shared buffer buf: [ok, buffer, finalBuffer, value]
serializeWithBufferAndIndex(buf, object, target, options) ==
    LET checkKeys == Option(options, "checkKeys", FALSE)
        serializeFunctions == Option(options, "serializeFunctions", FALSE)
        ignoreUndefined == Option(options, "ignoreUndefined", TRUE)
        startIndex == Option(options, "index", 0)
        r == serializeInto(buf, object, checkKeys, 0, serializeFunctions, ignoreUndefined)
        serializationIndex == r.index
    IN  IF ~r.ok
        THEN [ok |-> FALSE, buffer |-> r.buffer, finalBuffer |-> target, value |-> 0]
        ELSE [ok |-> TRUE, buffer |-> r.buffer,
              finalBuffer |-> BufferCopy(r.buffer, target, startIndex, 0, serializationIndex),
              value |-> LastWrittenIndex(startIndex, serializationIndex)]

\* bson.ts:202   ensureBuffer: a Buffer is returned as it is
ensureBuffer(b) == b

\* bson.ts:201   deserialize(buffer, options)
deserialize(b, options) == internalDeserialize(ensureBuffer(b), options)

\* calculateObjectSize with ignoreUndefined defaulting to false
calculateObjectSize_KeepsUndefined(object, options) ==
    internalCalculateObjectSize(object, Option(options, "serializeFunctions", FALSE),
                                Option(options, "ignoreUndefined", FALSE))

\* bson.ts:217   calculateObjectSize(object, options)
calculateObjectSize(object, options) ==
    LET serializeFunctions == Option(options, "serializeFunctions", FALSE)
        ignoreUndefined == Option(options, "ignoreUndefined", TRUE)
    IN  internalCalculateObjectSize(object, serializeFunctions, ignoreUndefined)

\* Object.assign with the defaults winning over the caller's options
ObjectAssign_TargetWins(target, source) ==
    [f \in DOMAIN target \cup DOMAIN source |->
        IF f \in DOMAIN target THEN target[f] ELSE source[f]]

\* Object.assign(target, source): source's properties over target's
ObjectAssign(target, source) ==
    [f \in DOMAIN target \cup DOMAIN source |->
        IF f \in DOMAIN source THEN source[f] ELSE target[f]]

\* an array slot never assigned
Hole == Value("empty", 0, << >>, << >>)

\* array[at] = value: an array grows, with holes, up to the index assigned
ArrayStore(array, at, value) ==
    [j \in 1..Max(Len(array), at + 1) |->
        IF j = at + 1 THEN value ELSE IF j <= Len(array) THEN array[j] ELSE Hole]

\* bson.ts:265   where document i of the call is stored
DocumentSlot_NoOffset(docStartIndex, i) == i

DocumentSlot(docStartIndex, i) == docStartIndex + i

\* bson.ts:258   the loop over the documents, from document i at `index`:
\* [ok, documents, value], the array as the loop leaves it and the index
\* returned
RECURSIVE deserializeStreamLoop(_, _, _, _, _, _, _)
deserializeStreamLoop(b, i, index, numberOfDocuments, docs, docStartIndex, internalOptions) ==
    IF i >= numberOfDocuments THEN [ok |-> TRUE, documents |-> docs, value |-> index]
    ELSE LET size == ReadInt32LE(b, index)
             options == [internalOptions EXCEPT !.index = index]
             r == internalDeserialize(b, options)
         IN  IF ~r.ok THEN [ok |-> FALSE, documents |-> docs, value |-> 0]
             ELSE deserializeStreamLoop(b, i + 1, index + size, numberOfDocuments,
                                        ArrayStore(docs, DocumentSlot(docStartIndex, i), r.val),
                                        docStartIndex, options)

\* bson.ts:242   deserializeStream(data, startIndex, numberOfDocuments,
\*                                 documents, docStartIndex, options)
deserializeStream(b, startIndex, numberOfDocuments, docs, docStartIndex, options) ==
    LET internalOptions ==
            ObjectAssign([allowObjectSmallerThanBufferSize |-> TRUE, index |-> 0], options)
    IN  deserializeStreamLoop(ensureBuffer(b), 0, startIndex, numberOfDocuments, docs,
                              docStartIndex, internalOptions)

(***************************************************************************)
(* Spec: one process calling setInternalBufferSize, serialize and          *)
(* serializeWithBufferAndIndex in any order on the shared buffer.          *)
(***************************************************************************)
NoOptions == [f \in {} |-> 0]

\* the documents serialized in the shared-buffer scenarios: {}, {a: "hi"},
\* {"$b": true} and {a: -2, "$b": null}
BufferDocs ==
    { << >>,
      << [key |-> KeyA, val |-> Str(<< 104, 105 >>)] >>,
      << [key |-> KeyDollar, val |-> Bool(TRUE)] >>,
      << [key |-> KeyA, val |-> Num(-2)], [key |-> KeyDollar, val |-> Null] >> }

\* buffer sizes a caller asks for: a small one, MAXSIZE, and up to MaxGrow above
RequestedSizes == { 1024 } \cup { MAXSIZE + g : g \in 0..MaxGrow }

SerializeOptions ==
    { NoOptions, [checkKeys |-> TRUE] }
        \cup { [minInternalBufferSize |-> n] : n \in RequestedSizes }

\* the caller's target buffers, filled with 0xAA: room for every document of
\* BufferDocs at index 1, or for the shorter ones only
TargetBuffers == { [i \in 1..n |-> 170] : n \in { 9, 16 } }

IndexOptions ==
    { NoOptions, [index |-> 1], [checkKeys |-> TRUE, index |-> 1] }

\* what a call gave: a number, a byte array, or a throw (bytes is also the
\* caller's target buffer after serializeWithBufferAndIndex)
Returned(v) == [status |-> "returned", value |-> v, bytes |-> << >>]
ReturnedBytes(b) == [status |-> "returned", value |-> 0, bytes |-> b]
Thrown == [status |-> "thrown", value |-> 0, bytes |-> << >>]

Init ==
    /\ buffer = InitialBuffer
    /\ maxRequested = 0
    /\ call = [op |-> "none"]
    /\ ret = [status |-> "none", value |-> 0, bytes |-> << >>]
    /\ data = << >>
    /\ documents = << >>
    /\ pc = "shared"
    /\ obj = 0

SetInternalBufferSize(size) ==
    /\ buffer' = setInternalBufferSize(buffer, size)
    /\ maxRequested' = Max(maxRequested, size)
    /\ call' = [op |-> "setInternalBufferSize", size |-> size]
    /\ ret' = Returned(0)
    /\ UNCHANGED <<data, documents, pc, obj>>

Serialize(object, options) ==
    LET r == serialize(buffer, object, options)
    IN  /\ buffer' = r.buffer
        /\ maxRequested' = Max(maxRequested, Option(options, "minInternalBufferSize", 0))
        /\ call' = [op |-> "serialize", object |-> object, options |-> options]
        /\ ret' = IF r.ok THEN ReturnedBytes(r.value) ELSE Thrown
        /\ UNCHANGED <<data, documents, pc, obj>>

SerializeWithBufferAndIndex(object, target, options) ==
    LET r == serializeWithBufferAndIndex(buffer, object, target, options)
    IN  /\ buffer' = r.buffer
        /\ call' = [op |-> "serializeWithBufferAndIndex", object |-> object,
                    target |-> target, options |-> options]
        /\ ret' = [status |-> IF r.ok THEN "returned" ELSE "thrown",
                    value |-> r.value, bytes |-> r.finalBuffer]
        /\ UNCHANGED <<maxRequested, data, documents, pc, obj>>

Next ==
    \/ \E size \in RequestedSizes : SetInternalBufferSize(size)
    \/ \E object \in BufferDocs, options \in SerializeOptions : Serialize(object, options)
    \/ \E object \in BufferDocs, target \in TargetBuffers, options \in IndexOptions :
           SerializeWithBufferAndIndex(object, target, options)

Spec == Init /\ [][Next]_vars

(***************************************************************************)
(* Properties of the shared buffer, under Spec.                            *)
(***************************************************************************)
\* the bytes serialize(object, options) returns as the first call of a process
FreshSerialize(object, options) == serialize(InitialBuffer, object, options).value

\* C3: serializeWithBufferAndIndex never touches shared state: the shared
\* buffer holds after the call what it held before it.
C3_SharedBufferUntouched ==
    [][call'.op = "serializeWithBufferAndIndex" => buffer' = buffer]_vars

C8_SharedBufferInvisible ==
    (call.op = "serialize" /\ ret.status = "returned") =>
        ret.bytes = FreshSerialize(call.object, call.options)

\* a successful serialize on a shared buffer that holds non-zero bytes of an
\* earlier, longer call after the bytes just written
C8_Witness ==
    /\ call.op = "serialize" /\ ret.status = "returned"
    /\ \E j \in (Len(ret.bytes) + 1)..Len(buffer.bytes) : buffer.bytes[j] # 0

\* C9: the capacity of the shared buffer is the maximum of MAXSIZE and every
\* size requested so far; it never decreases, a request not above the
\* capacity keeps the buffer and a larger one replaces it by a buffer of
\* exactly the requested size.
C9_Capacity ==
    /\ [](buffer.cap = Max(MAXSIZE, maxRequested))
    /\ [][/\ buffer'.cap >= buffer.cap
          /\ call'.op = "setInternalBufferSize" =>
                IF call'.size <= buffer.cap THEN buffer' = buffer
                ELSE buffer' = BufferAlloc(call'.size)
          /\ (call'.op = "serialize" /\ "minInternalBufferSize" \in DOMAIN call'.options) =>
                IF call'.options.minInternalBufferSize <= buffer.cap
                THEN buffer'.cap = buffer.cap
                ELSE buffer'.cap = call'.options.minInternalBufferSize]_vars

\* a request below the capacity, made after the buffer has grown
C9_Witness ==
    /\ call.op = "setInternalBufferSize"
    /\ call.size < buffer.cap
    /\ buffer.cap > MAXSIZE
    /\ Len(buffer.bytes) > 0

(***************************************************************************)
(* SpecCodec: one document through serialize, calculateObjectSize and      *)
(* deserialize, for every document of AllDocs and every setting of         *)
(* serializeFunctions and ignoreUndefined.                                 *)
(***************************************************************************)
CodecOptions ==
    { NoOptions, [serializeFunctions |-> TRUE], [ignoreUndefined |-> FALSE],
      [serializeFunctions |-> TRUE, ignoreUndefined |-> FALSE] }

InitCodec ==
    /\ buffer = InitialBuffer
    /\ maxRequested = 0
    /\ call \in { [op |-> "codec", object |-> d, options |-> o] :
                    d \in AllDocs, o \in CodecOptions }
    /\ ret = [status |-> "none", value |-> 0, bytes |-> << >>]
    /\ data = << >>
    /\ documents = << >>
    /\ pc = "input"
    /\ obj = 0

CodecSerialize ==
    /\ pc = "input"
    /\ LET r == serialize(buffer, call.object, call.options)
       IN  /\ buffer' = r.buffer
           /\ ret' = IF r.ok THEN ReturnedBytes(r.value) ELSE Thrown
           /\ pc' = IF r.ok THEN "serialized" ELSE "failed"
    /\ UNCHANGED <<maxRequested, call, data, documents, obj>>

CodecCalculateObjectSize ==
    /\ pc = "serialized"
    /\ ret' = [ret EXCEPT !.value = calculateObjectSize(call.object, call.options)]
    /\ pc' = "sized"
    /\ UNCHANGED <<buffer, maxRequested, call, data, documents, obj>>

CodecDeserialize ==
    /\ pc = "sized"
    /\ LET r == deserialize(ret.bytes, NoOptions)
       IN  /\ documents' = IF r.ok THEN << r.val >> ELSE << >>
           /\ pc' = IF r.ok THEN "done" ELSE "failed"
    /\ UNCHANGED <<buffer, maxRequested, call, ret, data, obj>>

NextCodec == CodecSerialize \/ CodecCalculateObjectSize \/ CodecDeserialize

SpecCodec == InitCodec /\ [][NextCodec]_vars

C2_SizeMatches ==
    (call.op = "codec" /\ pc \in { "sized", "done" }) => Len(ret.bytes) = ret.value

\* a size computed for a document holding an undefined value and a function
\* with ignoreUndefined false and serializeFunctions true
C2_Witness ==
    /\ pc = "sized"
    /\ call.options = [serializeFunctions |-> TRUE, ignoreUndefined |-> FALSE]
    /\ \E i, j \in 1..Len(call.object) :
          call.object[i].val.k = "undefined" /\ call.object[j].val.k = "function"
    /\ ret.value = Len(ret.bytes)

(***************************************************************************)
(* SpecStream: one call of deserializeStream on a buffer of documents      *)
(* framed back to back, well-formed or with one document corrupted.        *)
(***************************************************************************)
\* {}, {a: -2} and {"$b": {a: "hi"}}
StreamDocs ==
    { << >>,
      << [key |-> KeyA, val |-> Num(-2)] >>,
      << [key |-> KeyDollar, val |-> Doc(<< [key |-> KeyA, val |-> Str(<< 104, 105 >>)] >>)] >> }

\* an entry of the caller's array before the call: {a: true}
Earlier == Doc(<< [key |-> KeyA, val |-> Bool(TRUE)] >>)

StreamOptions == { NoOptions, [allowObjectSmallerThanBufferSize |-> FALSE] }

\* how one document of the stream is damaged: its terminator overwritten, or
\* its length prefix raised by one
Corruptions == { "terminator", "length" }

RECURSIVE Concat(_, _)
Concat(seqs, i) == IF i > Len(seqs) THEN << >> ELSE seqs[i] \o Concat(seqs, i + 1)

RECURSIVE SumLen(_, _)
SumLen(seqs, n) == IF n = 0 THEN 0 ELSE SumLen(seqs, n - 1) + Len(seqs[n])

\* the encodings of the documents of a stream
Encoded(docs) == [i \in 1..Len(docs) |-> FreshSerialize(docs[i], NoOptions)]

\* the index at which document i (from 0) of the stream starts
FrameStart(startIndex, docs, i) == startIndex + SumLen(Encoded(docs), i)

\* startIndex bytes of padding, then the documents back to back
Framed(startIndex, docs) == [j \in 1..startIndex |-> 9] \o Concat(Encoded(docs), 1)

Corrupted(bytes, startIndex, docs, corrupt) ==
    LET from == FrameStart(startIndex, docs, corrupt.at)
        last == FrameStart(startIndex, docs, corrupt.at + 1) - 1
    IN  CASE corrupt.kind = "terminator" -> [bytes EXCEPT ![last + 1] = 1]
          [] corrupt.kind = "length" -> [bytes EXCEPT ![from + 1] = @ + 1]
          [] OTHER -> bytes

StreamCalls ==
    { [op |-> "deserializeStream", docs |-> docs, startIndex |-> startIndex,
       numberOfDocuments |-> n, documents |-> before, docStartIndex |-> docStartIndex,
       options |-> options, corrupt |-> corrupt] :
        docs \in UNION { [1..m -> StreamDocs] : m \in 1..MaxStream },
        startIndex \in 0..1,
        n \in 0..MaxStream,
        before \in { << >>, << Earlier, Earlier >> },
        docStartIndex \in 0..1,
        options \in StreamOptions,
        corrupt \in { [kind |-> "none", at |-> 0] }
                       \cup [kind : Corruptions, at : 0..(MaxStream - 1)] }

InitStream ==
    /\ buffer = InitialBuffer
    /\ maxRequested = 0
    /\ call \in { c \in StreamCalls :
                    c.numberOfDocuments <= Len(c.docs) /\ c.corrupt.at < Len(c.docs) }
    /\ ret = [status |-> "none", value |-> 0, bytes |-> << >>]
    /\ data = Corrupted(Framed(call.startIndex, call.docs), call.startIndex, call.docs,
                        call.corrupt)
    /\ documents = call.documents
    /\ pc = "input"
    /\ obj = 0

DeserializeStream ==
    /\ pc = "input"
    /\ LET r == deserializeStream(data, call.startIndex, call.numberOfDocuments, documents,
                                  call.docStartIndex, call.options)
       IN  /\ documents' = r.documents
           /\ ret' = IF r.ok THEN Returned(r.value) ELSE Thrown
    /\ pc' = "done"
    /\ UNCHANGED <<buffer, maxRequested, call, data, obj>>

NextStream == DeserializeStream

SpecStream == InitStream /\ [][NextStream]_vars

\* the caller's array with documents 0..(k - 1) of the stream stored from
\* docStartIndex and every other entry as before the call
StoredUpTo(k) ==
    LET first == call.docStartIndex
        n == IF k = 0 THEN Len(call.documents) ELSE Max(Len(call.documents), first + k)
    IN  [j \in 1..n |->
            IF j - 1 >= first /\ j - 1 < first + k THEN Doc(call.docs[j - first])
            ELSE IF j <= Len(call.documents) THEN call.documents[j] ELSE Hole]

WellFormed == call.op = "deserializeStream" /\ call.corrupt.kind = "none"

\* C5 as stated: on a buffer of well-formed documents, for any options, the
\* call stores document i in documents[docStartIndex + i] and returns the
\* index just past document n - 1.
C5_Original ==
    (pc = "done" /\ WellFormed) =>
        /\ ret.status = "returned"
        /\ ret.value = FrameStart(call.startIndex, call.docs, call.numberOfDocuments)
        /\ documents = StoredUpTo(call.numberOfDocuments)

\* C5 amended: the same, for options that do not set
\* allowObjectSmallerThanBufferSize to false.
C5_StreamAdvance ==
    (/\ pc = "done" /\ WellFormed
     /\ Option(call.options, "allowObjectSmallerThanBufferSize", TRUE)) =>
        /\ ret.status = "returned"
        /\ ret.value = FrameStart(call.startIndex, call.docs, call.numberOfDocuments)
        /\ documents = StoredUpTo(call.numberOfDocuments)

\* two documents parsed from a non-zero start index into a non-zero slot
C5_Witness ==
    /\ pc = "done" /\ WellFormed /\ ret.status = "returned"
    /\ call.numberOfDocuments = 2 /\ call.startIndex = 1 /\ call.docStartIndex = 1
    /\ Len(call.docs[1]) > 0
    /\ documents[3] = Doc(call.docs[2])

\* C7 as stated: when parsing of a document fails, the output array is left
\* as it was before the call.
C7_Original ==
    (pc = "done" /\ ret.status = "thrown") => documents = call.documents

\* the options forbid a document shorter than the buffer, and the first
\* document is shorter
ShorterForbidden ==
    /\ ~Option(call.options, "allowObjectSmallerThanBufferSize", TRUE)
    /\ Len(data) # Len(Encoded(call.docs)[1])

\* the document whose parsing fails: the first one when it may not be shorter
\* than the buffer, else the damaged one
FailingDocument == IF ShorterForbidden THEN 0 ELSE call.corrupt.at

Fails ==
    /\ FailingDocument < call.numberOfDocuments
    /\ ShorterForbidden \/ call.corrupt.kind # "none"

\* C7 amended: when parsing of document k fails the call throws and returns
\* no index; documents 0..(k - 1) of the call stay stored in
\* documents[docStartIndex..docStartIndex + k - 1], and every other entry of
\* the array, the slot of document k included, is as before the call.
C7_AbortKeepsEarlier ==
    pc = "done" =>
        /\ ret.status = "thrown" <=> Fails
        /\ ret.status = "thrown" => (ret.value = 0 /\ documents = StoredUpTo(FailingDocument))

\* a call that failed on its second document
C7_Witness ==
    /\ pc = "done" /\ ret.status = "thrown"
    /\ call.corrupt.kind = "length" /\ call.corrupt.at = 1
    /\ documents # call.documents
    /\ documents = StoredUpTo(1)

(***************************************************************************)
(* JavaScript numbers beyond 32 bits, kept in two parts: an integer        *)
(* n is [hi, lo] with n = hi * 2^16 + lo and lo in 0..65535.               *)
(***************************************************************************)
Number(hi, lo) == [hi |-> hi, lo |-> lo]

\* ToInt32 without the wrap: the value is kept as it is given
ToInt32_Unwrapped(n) == n

\* test_deps.ts:74   value | 0: the signed 32-bit integer congruent to the
\* value modulo 2^32
ToInt32(n) ==
    LET w == n.hi % 65536
    IN  Number(IF w >= 32768 THEN w - 65536 ELSE w, n.lo)

\* test_deps.ts:69   new Int32(value)
NewInt32Object(value) == [value |-> ToInt32(value)]

\* test_deps.ts:82   valueOf()
Int32ValueOf(o) == o.value

\* test_deps.ts:90   toJSON()
Int32ToJSON(o) == o.value

(***************************************************************************)
(* SpecInt32: an Int32 constructed from an integer, then read.             *)
(***************************************************************************)
\* integers around the multiples of 2^31 from -2^32 to 2^32
Int32Inputs ==
    { Number(h + d, lo) :
        h \in { -65536, -32768, 0, 32768, 65536 }, d \in (-MaxDelta)..MaxDelta,
        lo \in { 0, 1, 32768, 65535 } }

InitInt32 ==
    /\ buffer = InitialBuffer
    /\ maxRequested = 0
    /\ call = [op |-> "none"]
    /\ ret = [status |-> "none", value |-> Number(0, 0)]
    /\ data = << >>
    /\ documents = << >>
    /\ pc = "start"
    /\ obj = 0

NewInt32(value) ==
    /\ pc = "start"
    /\ obj' = NewInt32Object(value)
    /\ call' = [op |-> "new Int32", value |-> value]
    /\ pc' = "constructed"
    /\ UNCHANGED <<buffer, maxRequested, ret, data, documents>>

ValueOf ==
    /\ pc = "constructed"
    /\ ret' = [status |-> "valueOf", value |-> Int32ValueOf(obj)]
    /\ pc' = "read"
    /\ UNCHANGED <<buffer, maxRequested, call, data, documents, obj>>

ToJSON ==
    /\ pc = "constructed"
    /\ ret' = [status |-> "toJSON", value |-> Int32ToJSON(obj)]
    /\ pc' = "read"
    /\ UNCHANGED <<buffer, maxRequested, call, data, documents, obj>>

NextInt32 ==
    \/ \E value \in Int32Inputs : NewInt32(value)
    \/ ValueOf
    \/ ToJSON

SpecInt32 == InitInt32 /\ [][NextInt32]_vars

\* v lies in [-2^31, 2^31 - 1]
InInt32Range(v) == v.hi \in -32768..32767 /\ v.lo \in 0..65535

\* v and n are congruent modulo 2^32
Congruent32(v, n) == v.lo = n.lo /\ (v.hi - n.hi) % 65536 = 0

\* C10: new Int32(n).value is the v in [-2^31, 2^31 - 1] congruent to n
\* modulo 2^32 (out-of-range inputs wrap), and valueOf() and toJSON() return
\* that v.
C10_Int32Wraps ==
    /\ pc \in { "constructed", "read" } =>
          /\ InInt32Range(obj.value)
          /\ Congruent32(obj.value, call.value)
    /\ pc = "read" => ret.value = obj.value

\* an input above 2^31 - 1 that wrapped to a negative value, read back
C10_Witness ==
    /\ pc = "read" /\ ret.status = "toJSON"
    /\ call.value.hi >= 32768
    /\ obj.value.hi < 0
    /\ ret.value = obj.value

(***************************************************************************)
(* Long and Timestamp (the classes src/unnamed/part_000 tests).  The 64     *)
(* bits of a Long are four 16-bit words, least significant first, with the *)
(* unsigned flag beside them.                                              *)
(***************************************************************************)
\* the two words of value | 0 (or value >>> 0: the bits are the same)
Words32(n) == << n.lo, n.hi % 65536 >>

\* new Long(low, high, unsigned)
Long(low, high, unsigned) == [w |-> Words32(low) \o Words32(high), unsigned |-> unsigned]

\* the low and high 32-bit halves of a Long, as numbers
LongLow(l) == Number(l.w[2], l.w[1])
LongHigh(l) == Number(l.w[4], l.w[3])

\* Long.MAX_UNSIGNED_VALUE: all 64 bits set
MAX_UNSIGNED_VALUE == Long(Number(-1, 65535), Number(-1, 65535), TRUE)

\* a Timestamp built from a Long that keeps the sign flag of the Long
TimestampFromLong_KeepsFlag(l) == Long(LongLow(l), LongHigh(l), l.unsigned)

\* new Timestamp(): the zero Timestamp
TimestampEmpty == Long(Number(0, 0), Number(0, 0), TRUE)

\* new Timestamp({t, i}): the seconds t are the high half, the ordinal i the
\* low half
TimestampFromParts(t, i) == Long(i, t, TRUE)

\* new Timestamp(long): the bits of a Long or Timestamp, unsigned
TimestampFromLong(l) == Long(LongLow(l), LongHigh(l), TRUE)

\* Timestamp.MAX_VALUE
TimestampMAX_VALUE == MAX_UNSIGNED_VALUE

\* the words divided by ten, and the remainder
DivMod10(w) ==
    LET c4 == w[4]
        c3 == (c4 % 10) * 65536 + w[3]
        c2 == (c3 % 10) * 65536 + w[2]
        c1 == (c2 % 10) * 65536 + w[1]
    IN  [q |-> << c1 \div 10, c2 \div 10, c3 \div 10, c4 \div 10 >>, r |-> c1 % 10]

ZeroWords == << 0, 0, 0, 0 >>

\* the decimal digits (character codes) of the unsigned value of the words
RECURSIVE UnsignedDigits(_)
UnsignedDigits(w) ==
    LET d == DivMod10(w)
    IN  IF d.q = ZeroWords THEN << 48 + d.r >> ELSE UnsignedDigits(d.q) \o << 48 + d.r >>

\* the two's complement negation of the words
Negate(w) ==
    LET n1 == (65535 - w[1]) + 1
        n2 == (65535 - w[2]) + n1 \div 65536
        n3 == (65535 - w[3]) + n2 \div 65536
        n4 == (65535 - w[4]) + n3 \div 65536
    IN  << n1 % 65536, n2 % 65536, n3 % 65536, n4 % 65536 >>

\* toString(): the decimal rendering, unsigned or signed by the flag
LongToString(l) ==
    IF l.unsigned \/ l.w[4] < 32768 THEN UnsignedDigits(l.w)
    ELSE << 45 >> \o UnsignedDigits(Negate(l.w))

\* toJSON(): { "$timestamp": toString() }
TimestampToJSON(l) == [f \in { "$timestamp" } |-> LongToString(l)]

(***************************************************************************)
(* SpecTimestamp: a Timestamp constructed in each of the ways of the test, *)
(* then rendered.                                                          *)
(***************************************************************************)
\* 0, 0xff, 0x7fffffff, 0x80000000, 0xffffffff, 0xfffffffff and -1
TimestampInputs ==
    { Number(0, 0), Number(0, 255), Number(32767, 65535), Number(32768, 0),
      Number(65535, 65535), Number(1048575, 65535), Number(-1, 65535) }

InitTimestamp ==
    /\ buffer = InitialBuffer
    /\ maxRequested = 0
    /\ call = [op |-> "none"]
    /\ ret = [status |-> "none", bytes |-> << >>]
    /\ data = << >>
    /\ documents = << >>
    /\ pc = "start"
    /\ obj = 0

Constructed(timestamp, how) ==
    /\ pc = "start"
    /\ obj' = timestamp
    /\ call' = how
    /\ pc' = "constructed"
    /\ UNCHANGED <<buffer, maxRequested, ret, data, documents>>

NewTimestamp == Constructed(TimestampEmpty, [op |-> "new Timestamp()"])

NewTimestampFromParts(t, i) ==
    Constructed(TimestampFromParts(t, i), [op |-> "new Timestamp({t, i})", t |-> t, i |-> i])

NewTimestampFromTimestamp(t, i) ==
    Constructed(TimestampFromLong(TimestampFromParts(t, i)),
                [op |-> "new Timestamp(timestamp)", t |-> t, i |-> i])

NewTimestampFromLong(low, high, unsigned) ==
    Constructed(TimestampFromLong(Long(low, high, unsigned)),
                [op |-> "new Timestamp(long)", t |-> high, i |-> low, unsigned |-> unsigned])

TimestampToStringCall ==
    /\ pc = "constructed"
    /\ ret' = [status |-> "toString", bytes |-> LongToString(obj)]
    /\ pc' = "rendered"
    /\ UNCHANGED <<buffer, maxRequested, call, data, documents, obj>>

TimestampToJSONCall ==
    /\ pc = "constructed"
    /\ ret' = [status |-> "toJSON", bytes |-> TimestampToJSON(obj)["$timestamp"]]
    /\ pc' = "rendered"
    /\ UNCHANGED <<buffer, maxRequested, call, data, documents, obj>>

NextTimestamp ==
    \/ NewTimestamp
    \/ \E t, i \in TimestampInputs : NewTimestampFromParts(t, i)
    \/ \E t, i \in TimestampInputs : NewTimestampFromTimestamp(t, i)
    \/ \E low, high \in TimestampInputs, unsigned \in BOOLEAN :
           NewTimestampFromLong(low, high, unsigned)
    \/ TimestampToStringCall
    \/ TimestampToJSONCall

SpecTimestamp == InitTimestamp /\ [][NextTimestamp]_vars

\* "18446744073709551615"
MaxUnsignedText ==
    << 49, 56, 52, 52, 54, 55, 52, 52, 48, 55, 51, 55, 48, 57, 53, 53, 49, 54, 49, 53 >>

\* the words of the unsigned value a string of decimal digits denotes
RECURSIVE ParseUnsigned(_, _, _)
ParseUnsigned(text, k, w) ==
    IF k > Len(text) THEN w
    ELSE LET m1 == w[1] * 10 + (text[k] - 48)
             m2 == w[2] * 10 + m1 \div 65536
             m3 == w[3] * 10 + m2 \div 65536
             m4 == w[4] * 10 + m3 \div 65536
         IN  ParseUnsigned(text, k + 1,
                           << m1 % 65536, m2 % 65536, m3 % 65536, m4 % 65536 >>)

AllOnes(n) == Words32(n) = << 65535, 65535 >>

\* C6: a Timestamp is unsigned however it is constructed, toString() and
\* toJSON() render its unsigned 64-bit value, and t = i = 0xffffffff and
\* t = i = -1 both give "18446744073709551615", the rendering of
\* Timestamp.MAX_VALUE = Long.MAX_UNSIGNED_VALUE.
C6_TimestampUnsigned ==
    /\ TimestampMAX_VALUE = MAX_UNSIGNED_VALUE
    /\ LongToString(TimestampMAX_VALUE) = MaxUnsignedText
    /\ pc \in { "constructed", "rendered" } =>
          /\ obj.unsigned = TRUE
          /\ call.op # "new Timestamp()" => obj.w = Words32(call.i) \o Words32(call.t)
    /\ pc = "rendered" =>
          /\ \A k \in 1..Len(ret.bytes) : ret.bytes[k] \in 48..57
          /\ ParseUnsigned(ret.bytes, 1, ZeroWords) = obj.w
          /\ (call.op # "new Timestamp()" /\ AllOnes(call.t) /\ AllOnes(call.i)) =>
                ret.bytes = MaxUnsignedText

\* the maximal Timestamp built from a signed Long of t = i = -1 and rendered
\* by toJSON()
C6_Witness ==
    /\ pc = "rendered" /\ ret.status = "toJSON"
    /\ call.op = "new Timestamp(long)" /\ ~call.unsigned
    /\ call.t = Number(-1, 65535) /\ call.i = Number(-1, 65535)
    /\ ret.bytes = MaxUnsignedText

====
